---- MODULE Spec2Model ----
(***************************************************************************)
(* NBA salary model: the season clock, the aging model and the valuation   *)
(* engine of the utility functions, over the constant tables of            *)
(* constants.js.                                                           *)
(*                                                                         *)
(* Numbers.  JavaScript numbers are modelled exactly, as integers counting *)
(* a fixed unit:                                                           *)
(*   - a date is its day number (getTime() / 86400000; the configured      *)
(*     dates are UTC midnights);                                           *)
(*   - season progress p stands for p / seasonDuration;                    *)
(*   - a rating or a rating delta r stands for r / RatingScale, with       *)
(*     RatingScale = 100 * seasonDuration, so that a table entry (in       *)
(*     hundredths) times a season progress is again a whole number;        *)
(*   - an age a stands for a / 10 years;                                   *)
(*   - a boost b stands for b / BoostScale;                                *)
(*   - a salary is the exact fraction num / SalaryDen of a million, num a  *)
(*     natural number of arbitrary size, kept as a sequence of base-1000   *)
(*     limbs (least significant first) with a sign flag.                   *)
(* Math.pow is the one operation that is not rational: its result is cut   *)
(* to a multiple of 1 / BoostScale.                                        *)
(***************************************************************************)
EXTENDS Integers, Sequences, FiniteSets, TLC

VARIABLES pc, op, args, ret, obs, prev, props, view,
          playerData, loading, error, comparisons, clock

vars == <<pc, op, args, ret, obs, prev, props, view,
          playerData, loading, error, comparisons, clock>>

\* The state of one call of a utility function.
callVars == <<pc, op, args, ret, obs, prev>>

\* The state of a rendered PlayerDetails: its props and what it computes.
renderVars == <<props, view>>

\* The state of NBASalaryCalculator, and the clock Date.now() reads.
uiVars == <<playerData, loading, error, comparisons, clock>>

(***************************************************************************)
(* Bounds of the input grids.                                              *)
(***************************************************************************)
MaxGamesIdx == 1
MaxMinutesIdx == 1
MaxRatingIdx == 10
MaxAgeIdx == 38
MaxDateIdx == 5
MaxYearsForward == 5
MaxPlayerDarkoIdx == 2
MaxPlayerAgeIdx == 3
MaxCompGamesIdx == 2
MaxCompMinutesIdx == 2
MaxCompImprovementIdx == 3
MaxComparisons == 2
MaxClock == 3

(***************************************************************************)
(* constants.js                                                            *)
(***************************************************************************)
seasonStartDate == 20383
seasonEndDate == 20556
dataAsOfDate == 20481

POSITION_CATEGORIES ==
    [ pg_pos |-> "guard", sg_pos |-> "guard", sf_pos |-> "wing",
      pf_pos |-> "big", c_pos |-> "big" ]

\* Table entries in hundredths of a rating point.
AGING_CURVES ==
    [ guard |-> ( 20 :> 60 @@ 21 :> 50 @@ 22 :> 40 @@ 23 :> 30 @@ 24 :> 15 @@
                  25 :> 8 @@ 26 :> 3 @@ 27 :> 0 @@ 28 :> 0 @@ 29 :> -8 @@
                  30 :> -15 @@ 31 :> -25 @@ 32 :> -40 @@ 33 :> -55 @@ 34 :> -75 @@
                  35 :> -100 @@ 36 :> -130 ),
      wing  |-> ( 20 :> 65 @@ 21 :> 55 @@ 22 :> 45 @@ 23 :> 35 @@ 24 :> 20 @@
                  25 :> 10 @@ 26 :> 3 @@ 27 :> 0 @@ 28 :> 0 @@ 29 :> -5 @@
                  30 :> -10 @@ 31 :> -18 @@ 32 :> -28 @@ 33 :> -42 @@ 34 :> -58 @@
                  35 :> -80 @@ 36 :> -105 ),
      big   |-> ( 20 :> 75 @@ 21 :> 60 @@ 22 :> 50 @@ 23 :> 35 @@ 24 :> 18 @@
                  25 :> 5 @@ 26 :> 0 @@ 27 :> -3 @@ 28 :> -8 @@ 29 :> -15 @@
                  30 :> -25 @@ 31 :> -38 @@ 32 :> -52 @@ 33 :> -70 @@ 34 :> -90 @@
                  35 :> -115 @@ 36 :> -145 ) ]

DEFAULT_POSITION_CATEGORY == "wing"

\* SALARY_CONSTANTS.  WIN_COST_MILLIONS and MVP_BONUS_CAP are in hundredths
\* (4.32, 0.10), MVP_BONUS_EXPONENT in tenths (1.2).
REPLACEMENT_LEVEL_DARKO == -3
MINUTES_BASELINE == 1475
WIN_COST_MILLIONS == 432
MVP_BONUS_CAP == 10
MVP_BONUS_EXPONENT == 12
MVP_BONUS_DIVISOR == 4
MINIMUM_SALARY_THRESHOLD == 3

\* INFLATION_SCALERS, in thousandths.
INFLATION_SCALERS ==
    ( "2026-27" :> 1074 @@ "2027-28" :> 1127 @@ "2028-29" :> 1184 @@
      "2029-30" :> 1240 @@ "2030-31" :> 1305 )

FUTURE_YEARS_FourSeasons == << "2026-27", "2027-28", "2028-29", "2029-30" >>

FUTURE_YEARS == << "2026-27", "2027-28", "2028-29", "2029-30", "2030-31" >>

(***************************************************************************)
(* Units.                                                                  *)
(***************************************************************************)
seasonDuration == seasonEndDate - seasonStartDate

RatingScale == 100 * seasonDuration

AgeScale == 10

BoostScale == 1000000

\* An amount of money m stands for m / MoneyScale millions.
MoneyScale == 10000

(***************************************************************************)
(* Input grids.                                                            *)
(***************************************************************************)
GamesGrid == {0} \cup { 30 + 45 * k : k \in 0..MaxGamesIdx }

MinutesGrid == {0} \cup { 10 + 25 * k : k \in 0..MaxMinutesIdx }

\* Ratings -5.0, -4.5, ..., 5.0
RatingGrid == { k * (RatingScale \div 2) : k \in (-MaxRatingIdx)..MaxRatingIdx }

\* The ratings next to the ones where the boost reaches its cap: one rating
\* unit below and above MVP_BONUS_DIVISOR and -MVP_BONUS_DIVISOR.
ThresholdRatingGrid ==
    { sign * (MVP_BONUS_DIVISOR * RatingScale + e) : sign \in { -1, 1 }, e \in { -1, 1 } }

\* The ratings calculateSalary is called with.
ValuationRatingGrid == RatingGrid \cup ThresholdRatingGrid

\* Ages 18.5, 19.0, ..., 37.5
AgeGrid == { 185 + 5 * k : k \in 0..MaxAgeIdx }

\* The five position codes, an unknown code, a missing position (the
\* property key of undefined) and a name of an inherited member.
PositionGrid ==
    { "pg_pos", "sg_pos", "sf_pos", "pf_pos", "c_pos", "xx_pos", "undefined", "constructor" }

\* Player records: ratings -1.5, 1.0, 3.5; ages 19.4, 25.4, 31.4, 37.4; a
\* guard, a big and a player without a position code.
PlayerDarkoGrid ==
    { (5 * k * RatingScale - 3 * RatingScale) \div 2 : k \in 0..MaxPlayerDarkoIdx }

PlayerAgeGrid == { 194 + 60 * k : k \in 0..MaxPlayerAgeIdx }

PlayerPositionGrid == { "pg_pos", "c_pos", "undefined" }

\* The sliders' values, and values past their ends: games 0, 45, 90;
\* minutes 25, 50; adjustments -5.5, -2.0, 1.5, 5.0.
CompGamesGrid == { 45 * k : k \in 0..MaxCompGamesIdx }

CompMinutesGrid == { 25 * k : k \in 1..MaxCompMinutesIdx }

CompImprovementGrid ==
    { (7 * k * RatingScale - 11 * RatingScale) \div 2 : k \in 0..MaxCompImprovementIdx }

Max(a, b) == IF a >= b THEN a ELSE b

Min(a, b) == IF a <= b THEN a ELSE b

Abs(a) == IF a < 0 THEN -a ELSE a

(***************************************************************************)
(* JavaScript values.                                                      *)
(***************************************************************************)
Number(v) == [kind |-> "number", val |-> v]

Undefined == [kind |-> "undefined", val |-> 0]

NaN == [kind |-> "NaN", val |-> 0]

TypeError == [kind |-> "TypeError", val |-> 0]

\* The string a number's toFixed(1) gives: val is the number of tenths.
Fixed1(t) == [kind |-> "fixed1", val |-> t]

MinimumSalary == [kind |-> "Minimum Salary", val |-> 0]

NoValue == [kind |-> "none", val |-> 0]

Null == [kind |-> "null", val |-> 0]

String(str) == [kind |-> "string", val |-> str]

\* The string toFixed(1) of a number that is NaN gives.
NaNString == [kind |-> "NaN string", val |-> 0]

\* A value in a condition: a number is truthy unless it is 0.
Truthy(v) == v.kind = "number" /\ v.val # 0

(***************************************************************************)
(* Season clock                                                            *)
(***************************************************************************)
\* A Date argument: given, or left out (undefined) so that the default
\* parameter value applies.
DateOf(d) == [given |-> TRUE, day |-> d]

NoDate == [given |-> FALSE, day |-> 0]

getSeasonProgressNoClamp(asOfDate) ==
    LET asOf == IF asOfDate.given THEN asOfDate.day ELSE dataAsOfDate
    IN  asOf - seasonStartDate

\* The progress as a number of 1 / seasonDuration: elapsed / seasonDuration
\* is elapsed of these units, and 1 is seasonDuration of them.
getSeasonProgress(asOfDate) ==
    LET asOf == IF asOfDate.given THEN asOfDate.day ELSE dataAsOfDate
        elapsed == asOf - seasonStartDate
    IN  Max(0, Min(seasonDuration, elapsed))

(***************************************************************************)
(* Aging model                                                             *)
(***************************************************************************)
\* Property names every object inherits from Object.prototype: obj[key] is
\* not undefined for them, whatever obj's own properties are.
ObjectPrototypeKeys ==
    { "constructor", "toString", "toLocaleString", "valueOf", "hasOwnProperty",
      "isPrototypeOf", "propertyIsEnumerable", "__proto__" }

\* POSITION_CATEGORIES[position] || DEFAULT_POSITION_CATEGORY, as the
\* property key AGING_CURVES is then indexed with.
CategoryKey(position) ==
    IF position \in DOMAIN POSITION_CATEGORIES THEN POSITION_CATEGORIES[position]
    ELSE IF position \in ObjectPrototypeKeys THEN "[inherited member]"
    ELSE DEFAULT_POSITION_CATEGORY

AgeKeyNoClamp(age) == age \div AgeScale

\* Math.max(20, Math.min(36, Math.floor(age)))
AgeKey(age) == Max(20, Min(36, age \div AgeScale))

\* The value in rating units (a table entry is a number of hundredths).
getAgingDelta(age, position) ==
    LET category == CategoryKey(position)
        ageKey == AgeKey(age)
    IN  IF category \notin DOMAIN AGING_CURVES THEN TypeError
        ELSE IF ageKey \notin DOMAIN AGING_CURVES[category] THEN Undefined
        ELSE Number(AGING_CURVES[category][ageKey] * seasonDuration)

\* a * b of JavaScript for a rating-unit value a and a season progress b.
TimesProgress(a, progress) ==
    IF a.kind = "number" THEN Number((a.val * progress) \div seasonDuration)
    ELSE IF a.kind = "TypeError" THEN TypeError
    ELSE NaN

getPartialYearAgingDelta(age, position, asOfDate) ==
    LET fullYearDelta == getAgingDelta(age, position)
        seasonProgress == getSeasonProgress(asOfDate)
    IN  TimesProgress(fullYearDelta, seasonProgress)

\* a + b of JavaScript: an exception raised while evaluating b leaves the
\* function; undefined or NaN on either side gives NaN.
Plus(a, b) ==
    IF a.kind = "TypeError" \/ b.kind = "TypeError" THEN TypeError
    ELSE IF a.kind = "number" /\ b.kind = "number" THEN Number(a.val + b.val)
    ELSE NaN

RECURSIVE CumulativeLoop(_, _, _, _, _)
\* for (let i = ...; i < yearsForward; i++) cumulativeDelta += getAgingDelta(...)
CumulativeLoop(cumulativeDelta, i, currentAge, position, yearsForward) ==
    IF i < yearsForward
    THEN CumulativeLoop(Plus(cumulativeDelta, getAgingDelta(currentAge + i * AgeScale, position)),
                        i + 1, currentAge, position, yearsForward)
    ELSE cumulativeDelta

getCumulativeAgingDeltaOffByOne(currentAge, position, yearsForward, includePartialCurrentYear) ==
    CumulativeLoop(IF includePartialCurrentYear
                   THEN Plus(Number(0), getPartialYearAgingDelta(currentAge, position, NoDate))
                   ELSE Number(0),
                   1, currentAge, position, yearsForward + 1)

getCumulativeAgingDelta(currentAge, position, yearsForward, includePartialCurrentYear) ==
    CumulativeLoop(IF includePartialCurrentYear
                   THEN Plus(Number(0), getPartialYearAgingDelta(currentAge, position, NoDate))
                   ELSE Number(0),
                   0, currentAge, position, yearsForward)

(***************************************************************************)
(* Player records and the ratings the projections of them are made at      *)
(***************************************************************************)
\* futureSalaries of a player record: missing, or a mapping from season
\* labels to amounts.
NoFutureSalaries == [given |-> FALSE, map |-> << >>]

FutureSalariesOf(m) == [given |-> TRUE, map |-> m]

\* actualSalary and futureSalaries of the records: a player without
\* contract data, one with an actualSalary of 0 and no future figure, and
\* one paid 25.0 now, 27.5 in 2026-27, 0 in 2027-28 and 1.2 in 2029-30.
ContractGrid ==
    { [actualSalary |-> Undefined, futureSalaries |-> NoFutureSalaries],
      [actualSalary |-> Number(0), futureSalaries |-> FutureSalariesOf(<< >>)],
      [actualSalary |-> Number(25 * MoneyScale),
       futureSalaries |-> FutureSalariesOf("2026-27" :> (55 * MoneyScale) \div 2
                                           @@ "2027-28" :> 0
                                           @@ "2029-30" :> (12 * MoneyScale) \div 10)] }

PlayerGrid ==
    { [name |-> "player", pos |-> p, age |-> a, darko |-> d,
       actualSalary |-> c.actualSalary, futureSalaries |-> c.futureSalaries] :
        p \in PlayerPositionGrid, a \in PlayerAgeGrid, d \in PlayerDarkoGrid,
        c \in ContractGrid }

\* players.json as loaded: two records of PlayerGrid under their names.
PlayersJson ==
    << [name |-> "Al", pos |-> "pg_pos", age |-> 254, darko |-> RatingScale,
        actualSalary |-> Number(25 * MoneyScale),
        futureSalaries |-> FutureSalariesOf("2026-27" :> (55 * MoneyScale) \div 2
                                            @@ "2027-28" :> 0
                                            @@ "2029-30" :> (12 * MoneyScale) \div 10)],
       [name |-> "Bo", pos |-> "c_pos", age |-> 314, darko |-> (7 * RatingScale) \div 2,
        actualSalary |-> Undefined, futureSalaries |-> NoFutureSalaries] >>

\* Values the sliders of a card are moved to: the initial value of a
\* comparison and one other.
SliderValues ==
    [games |-> { 70, 82 }, minutes |-> { 30, 36 },
     improvement |-> { 0, (3 * RatingScale) \div 2 }]

\* Values typed into the search input.
SearchTermGrid == { "", "a", "o" }

\* The aging deltas a projection adds to a rating: the partial one of the
\* current season and the cumulative ones of the seasons after it.
AgingDeltaGrid ==
    { getPartialYearAgingDelta(a, p, NoDate).val : a \in PlayerAgeGrid, p \in PlayerPositionGrid }
        \cup { getCumulativeAgingDelta(a, p, n, FALSE).val :
                 a \in PlayerAgeGrid, p \in PlayerPositionGrid, n \in 1..Len(FUTURE_YEARS) }

ProjectionRatingGrid ==
    { d + i + delta : d \in PlayerDarkoGrid, i \in CompImprovementGrid, delta \in AgingDeltaGrid }

\* The same for the players of PlayersJson and the values of the sliders.
CardRatingGrid ==
    UNION { { PlayersJson[k].darko + i
                + getPartialYearAgingDelta(PlayersJson[k].age, PlayersJson[k].pos, NoDate).val :
                i \in SliderValues.improvement }
            \cup { PlayersJson[k].darko + i
                     + getCumulativeAgingDelta(PlayersJson[k].age, PlayersJson[k].pos, n, FALSE).val :
                     i \in SliderValues.improvement, n \in 1..Len(FUTURE_YEARS) } :
            k \in DOMAIN PlayersJson }

(***************************************************************************)
(* Exact arithmetic on natural numbers of arbitrary size: a sequence of    *)
(* limbs 0..999, least significant first, no leading zero limb (zero is    *)
(* the empty sequence).                                                    *)
(***************************************************************************)
RECURSIVE BigMulCarry(_, _, _)
BigMulCarry(a, k, carry) ==
    IF a = << >>
    THEN IF carry = 0 THEN << >>
         ELSE <<carry % 1000>> \o BigMulCarry(<< >>, k, carry \div 1000)
    ELSE LET t == Head(a) * k + carry
         IN  <<t % 1000>> \o BigMulCarry(Tail(a), k, t \div 1000)

BigOf(n) == BigMulCarry(<< >>, 1, n)

\* a * k for a natural k below 2 000 000
BigMul(a, k) == IF k = 0 THEN << >> ELSE BigMulCarry(a, k, 0)

RECURSIVE BigPowMul(_, _, _)
\* a * k^n
BigPowMul(a, k, n) == IF n = 0 THEN a ELSE BigPowMul(BigMul(a, k), k, n - 1)

RECURSIVE BigAddCarry(_, _, _)
BigAddCarry(a, b, carry) ==
    IF a = << >> /\ b = << >>
    THEN IF carry = 0 THEN << >> ELSE <<carry>>
    ELSE LET x == IF a = << >> THEN 0 ELSE Head(a)
             y == IF b = << >> THEN 0 ELSE Head(b)
             t == x + y + carry
         IN  <<t % 1000>> \o BigAddCarry(IF a = << >> THEN a ELSE Tail(a),
                                          IF b = << >> THEN b ELSE Tail(b),
                                          t \div 1000)

BigAdd(a, b) == BigAddCarry(a, b, 0)

RECURSIVE BigLessFrom(_, _, _)
BigLessFrom(a, b, i) ==
    IF i = 0 THEN FALSE
    ELSE IF a[i] # b[i] THEN a[i] < b[i]
    ELSE BigLessFrom(a, b, i - 1)

BigLess(a, b) ==
    IF Len(a) # Len(b) THEN Len(a) < Len(b) ELSE BigLessFrom(a, b, Len(a))

BigLeq(a, b) == ~BigLess(b, a)

RECURSIVE BigDivFrom(_, _, _)
\* Quotient and remainder of the limbs i..Len(a) of a by k.
BigDivFrom(a, k, i) ==
    IF i > Len(a) THEN [q |-> << >>, r |-> 0]
    ELSE LET h == BigDivFrom(a, k, i + 1)
             t == h.r * 1000 + a[i]
         IN  [q |-> IF h.q = << >> /\ t < k THEN << >> ELSE <<t \div k>> \o h.q,
              r |-> t % k]

\* floor(a / k) for a natural k in 1 .. 2 000 000
BigDiv(a, k) == BigDivFrom(a, k, 1).q

RECURSIVE BigToInt(_)
BigToInt(a) == IF a = << >> THEN 0 ELSE Head(a) + 1000 * BigToInt(Tail(a))

(***************************************************************************)
(* Valuation engine                                                        *)
(***************************************************************************)
\* MVP_BONUS_CAP as a number of 1 / BoostScale.
CapUnits == (MVP_BONUS_CAP * BoostScale) \div 100

\* The denominator of every salary: MINUTES_BASELINE, the rating unit, the
\* hundredths of WIN_COST_MILLIONS and the boost unit.
SalaryDenFactors == <<MINUTES_BASELINE, RatingScale, 100, BoostScale>>

SalaryDen == BigMul(BigMul(BigMul(BigMul(<<1>>, SalaryDenFactors[1]), SalaryDenFactors[2]),
                           SalaryDenFactors[3]), SalaryDenFactors[4])

\* A signed number of 1 / SalaryDen.
Signed(neg, num) == [neg |-> neg /\ num # << >>, num |-> num]

SignedMul(s, k) == Signed(s.neg # (k < 0), BigMul(s.num, Abs(k)))

BaseSalaryAbsoluteRating(games, minutes, darko) ==
    SignedMul(SignedMul(SignedMul(Signed(FALSE, <<1>>), games * minutes),
                        Abs(darko - REPLACEMENT_LEVEL_DARKO * RatingScale)),
              WIN_COST_MILLIONS)

BaseSalaryClampedToSliders(games, minutes, darko) ==
    SignedMul(SignedMul(SignedMul(Signed(FALSE, <<1>>),
                                  Max(1, Min(82, games)) * Max(0, Min(48, minutes))),
                        darko - REPLACEMENT_LEVEL_DARKO * RatingScale),
              WIN_COST_MILLIONS)

\* (games * minutes / MINUTES_BASELINE) * (darko - REPLACEMENT_LEVEL_DARKO)
\*   * WIN_COST_MILLIONS, still without the factor BoostScale of SalaryDen.
BaseSalary(games, minutes, darko) ==
    SignedMul(SignedMul(SignedMul(Signed(FALSE, <<1>>), games * minutes),
                        darko - REPLACEMENT_LEVEL_DARKO * RatingScale),
              WIN_COST_MILLIONS)

\* x^(MVP_BONUS_EXPONENT / 10) as the fraction 6/5 in lowest terms.
PowNum == MVP_BONUS_EXPONENT \div 2

PowDen == 10 \div 2

PowBase == BigPowMul(<<1>>, MVP_BONUS_DIVISOR * RatingScale, PowNum)

RECURSIVE PowSearch(_, _, _)
\* The largest b in lo..hi with (b / CapUnits)^PowDen <= x^PowNum, where
\* target = absDarko^PowNum * CapUnits^PowDen and x = absDarko / (divisor * RatingScale).
PowSearch(lo, hi, target) ==
    IF lo = hi THEN lo
    ELSE LET mid == (lo + hi + 1) \div 2
         IN  IF BigLeq(BigPowMul(PowBase, mid, PowDen), target)
             THEN PowSearch(mid, hi, target)
             ELSE PowSearch(lo, mid - 1, target)

\* Math.pow(x / MVP_BONUS_DIVISOR, MVP_BONUS_EXPONENT) * MVP_BONUS_CAP for
\* x = absDarko >= 0, cut to a multiple of 1 / BoostScale (and to
\* 10 * MVP_BONUS_CAP, far above the cap).
PowTimesCap(absDarko) ==
    PowSearch(0, 10 * CapUnits,
              BigPowMul(BigPowMul(<<1>>, absDarko, PowNum), CapUnits, PowDen))

\* PowTimesCap on the ratings of the input grids, computed once.
PowTimesCapOnGrid ==
    [a \in { Abs(r) : r \in ValuationRatingGrid \cup ProjectionRatingGrid \cup CardRatingGrid } |->
        PowTimesCap(a)]

boostFactor(darko) ==
    IF Abs(darko) \in DOMAIN PowTimesCapOnGrid
    THEN PowTimesCapOnGrid[Abs(darko)]
    ELSE PowTimesCap(Abs(darko))

cappedBoostUncapped(darko) == boostFactor(darko)

\* Math.min(boostFactor, MVP_BONUS_CAP)
cappedBoost(darko) == Min(boostFactor(darko), CapUnits)

StarFactorBonusOnly(darko, boost) ==
    IF darko > 0 THEN BoostScale + boost ELSE BoostScale

\* The factor salary is multiplied by, as a number of 1 / BoostScale.
StarFactor(darko, boost) ==
    IF darko > 0 THEN BoostScale + boost
    ELSE IF darko < 0 THEN BoostScale - boost
    ELSE BoostScale

BelowMinimumNegativeOnly(salary) == salary.neg

\* salary < MINIMUM_SALARY_THRESHOLD
BelowMinimum(salary) ==
    salary.neg \/ BigLess(salary.num, BigMul(SalaryDen, MINIMUM_SALARY_THRESHOLD))

RECURSIVE BigDivAll(_, _, _)
BigDivAll(a, factors, i) ==
    IF i > Len(factors) THEN a ELSE BigDivAll(BigDiv(a, factors[i]), factors, i + 1)

toFixed1Truncating(salary) ==
    LET n == BigToInt(BigDivAll(BigMul(salary.num, 10), SalaryDenFactors, 1))
    IN  IF salary.neg THEN -n ELSE n

\* salary.toFixed(1): the number of tenths nearest to salary, the larger one
\* of two that are equally near.
toFixed1(salary) ==
    LET n == BigToInt(BigDivAll(BigDiv(BigAdd(BigMul(salary.num, 20), SalaryDen), 2),
                                SalaryDenFactors, 1))
    IN  IF salary.neg THEN -n ELSE n

\* The locals of calculateSalary after the star bonus / replacement penalty.
SalaryLocals(games, minutes, darko) ==
    LET boost == cappedBoost(darko)
        factor == StarFactor(darko, boost)
    IN  [cappedBoost |-> boost,
         factor |-> factor,
         salary |-> SignedMul(BaseSalary(games, minutes, darko), factor)]

NoLocals == [cappedBoost |-> 0, factor |-> 0, salary |-> Signed(FALSE, << >>)]

ReturnSalaryNoFloor(salary) == Fixed1(toFixed1(salary))

ReturnSalary(salary) ==
    IF BelowMinimum(salary) THEN MinimumSalary ELSE Fixed1(toFixed1(salary))

calculateSalary(games, minutes, darko) ==
    ReturnSalary(SalaryLocals(games, minutes, darko).salary)

(***************************************************************************)
(* PlayerDetails and SalaryProjections: the valuations of a comparison.    *)
(* A rating of a record of PlayerGrid plus deltas is always a number.      *)
(***************************************************************************)
\* parseFloat of a toFixed(1) string, as an amount of money.
parseFloat(s) == s.val * (MoneyScale \div 10)

\* amount * scaler for a scaler in thousandths.
TimesScaler(amount, scaler) ==
    (amount \div 1000) * scaler + ((amount % 1000) * scaler) \div 1000

InflationScalerAlwaysOne(seasonLabel) == 1000

\* INFLATION_SCALERS[seasonLabel] || 1
InflationScaler(seasonLabel) ==
    IF seasonLabel \in DOMAIN INFLATION_SCALERS /\ INFLATION_SCALERS[seasonLabel] # 0
    THEN INFLATION_SCALERS[seasonLabel]
    ELSE 1000

\* amount.toFixed(1): the number of tenths nearest to the amount.
MoneyToFixed1(amount) ==
    LET tenth == MoneyScale \div 10
    IN  IF amount >= 0 THEN (2 * amount + tenth) \div (2 * tenth)
        ELSE -((2 * (-amount) + tenth) \div (2 * tenth))

\* `$${amount.toFixed(1)}M`
DollarsM(amount) == [kind |-> "$M", val |-> MoneyToFixed1(amount)]

Min_ == [kind |-> "Min", val |-> 0]

FutureSalaryNoOptionalChaining(player, seasonLabel) ==
    IF ~player.futureSalaries.given THEN TypeError
    ELSE IF seasonLabel \in DOMAIN player.futureSalaries.map
         THEN Number(player.futureSalaries.map[seasonLabel])
         ELSE Undefined

\* player.futureSalaries?.[seasonLabel]
FutureSalary(player, seasonLabel) ==
    IF ~player.futureSalaries.given THEN Undefined
    ELSE IF seasonLabel \in DOMAIN player.futureSalaries.map
         THEN Number(player.futureSalaries.map[seasonLabel])
         ELSE Undefined

PlayerDetailsFullYearDelta(comp) ==
    LET player == comp.selectedPlayer
        currentYearAgingDelta == getAgingDelta(player.age, player.pos)
        adjustedDarkoWithAging ==
            Plus(Plus(Number(player.darko), Number(comp.improvement)), currentYearAgingDelta)
    IN  [currentYearAgingDelta |-> currentYearAgingDelta,
         adjustedDarkoWithAging |-> adjustedDarkoWithAging,
         currentYearSalary |-> calculateSalary(comp.games, comp.minutes,
                                               adjustedDarkoWithAging.val)]

\* What PlayerDetails computes before it renders.
PlayerDetails(comp) ==
    LET player == comp.selectedPlayer
        currentYearAgingDelta == getPartialYearAgingDelta(player.age, player.pos, NoDate)
        adjustedDarkoWithAging ==
            Plus(Plus(Number(player.darko), Number(comp.improvement)), currentYearAgingDelta)
    IN  [currentYearAgingDelta |-> currentYearAgingDelta,
         adjustedDarkoWithAging |-> adjustedDarkoWithAging,
         currentYearSalary |-> calculateSalary(comp.games, comp.minutes,
                                               adjustedDarkoWithAging.val)]

CurrentYearSurplusUnconditional(player, currentYearSalary) ==
    LET currentProjNum == IF currentYearSalary = MinimumSalary THEN 0
                          ELSE parseFloat(currentYearSalary)
    IN  currentProjNum - player.actualSalary.val

\* runningTotalSurplus after the current season: 0, or the current
\* projection minus player.actualSalary when that is truthy.
CurrentYearSurplus(player, currentYearSalary) ==
    IF Truthy(player.actualSalary)
    THEN LET currentProjNum == IF currentYearSalary = MinimumSalary THEN 0
                               ELSE parseFloat(currentYearSalary)
         IN  currentProjNum - player.actualSalary.val
    ELSE 0

RECURSIVE InlineCumulativeDeltaWithPartial(_, _, _, _)
InlineCumulativeDeltaWithPartial(cumulativeDelta, i, player, yearOffset) ==
    IF i < yearOffset
    THEN InlineCumulativeDeltaWithPartial(
             Plus(cumulativeDelta, getAgingDelta(player.age + i * AgeScale, player.pos)),
             i + 1, player, yearOffset)
    ELSE Plus(cumulativeDelta, getPartialYearAgingDelta(player.age, player.pos, NoDate))

RECURSIVE InlineCumulativeDelta(_, _, _, _)
\* for (let i = 0; i < yearOffset; i++)
\*     cumulativeDelta += getAgingDelta(player.age + i, player.pos)
InlineCumulativeDelta(cumulativeDelta, i, player, yearOffset) ==
    IF i < yearOffset
    THEN InlineCumulativeDelta(
             Plus(cumulativeDelta, getAgingDelta(player.age + i * AgeScale, player.pos)),
             i + 1, player, yearOffset)
    ELSE cumulativeDelta

FutureRowOfSentinelAtThreshold(player, seasonLabel, projectedAge, cumulativeDelta, projectedDarko, rawSalary) ==
    LET inflatedValue == IF rawSalary = MinimumSalary
                         THEN MINIMUM_SALARY_THRESHOLD * MoneyScale
                         ELSE TimesScaler(parseFloat(rawSalary), InflationScaler(seasonLabel))
        displaySalary == IF rawSalary = MinimumSalary THEN Min_ ELSE DollarsM(inflatedValue)
        actualSalary == FutureSalary(player, seasonLabel)
        surplus == IF Truthy(actualSalary) THEN Number(inflatedValue - actualSalary.val)
                   ELSE Null
    IN  [row |-> [seasonLabel |-> seasonLabel, projectedAge |-> projectedAge,
                  displaySalary |-> displaySalary, actualSalary |-> actualSalary,
                  surplus |-> surplus],
         locals |-> [cumulativeDelta |-> cumulativeDelta, projectedDarko |-> projectedDarko,
                     rawSalary |-> rawSalary, inflatedValue |-> inflatedValue]]

\* The second half of the callback of FUTURE_YEARS.map, from the raw valuation
\* on: inflation, display, the actual salary and the surplus, and the row it
\* returns with the locals computed on the way.
FutureRowOf(player, seasonLabel, projectedAge, cumulativeDelta, projectedDarko, rawSalary) ==
    LET inflatedValue == IF rawSalary = MinimumSalary THEN 0
                         ELSE TimesScaler(parseFloat(rawSalary), InflationScaler(seasonLabel))
        displaySalary == IF rawSalary = MinimumSalary THEN Min_ ELSE DollarsM(inflatedValue)
        actualSalary == FutureSalary(player, seasonLabel)
        surplus == IF Truthy(actualSalary) THEN Number(inflatedValue - actualSalary.val)
                   ELSE Null
    IN  [row |-> [seasonLabel |-> seasonLabel, projectedAge |-> projectedAge,
                  displaySalary |-> displaySalary, actualSalary |-> actualSalary,
                  surplus |-> surplus],
         locals |-> [cumulativeDelta |-> cumulativeDelta, projectedDarko |-> projectedDarko,
                     rawSalary |-> rawSalary, inflatedValue |-> inflatedValue]]

\* The callback of FUTURE_YEARS.map for the season at 0-based index idx: the
\* row it returns and the locals it computes on the way.
FutureRow(player, games, minutes, improvement, seasonLabel, idx) ==
    LET yearOffset == idx + 1
        projectedAge == player.age + yearOffset * AgeScale
        cumulativeDelta == InlineCumulativeDelta(Number(0), 0, player, yearOffset)
        projectedDarko ==
            Plus(Plus(Number(player.darko), Number(improvement)), cumulativeDelta)
    IN  FutureRowOf(player, seasonLabel, projectedAge, cumulativeDelta, projectedDarko,
                    calculateSalary(games, minutes, projectedDarko.val))

RECURSIVE RunningTotal(_, _, _)
\* runningTotalSurplus after the callback has run for the rows i..Len(rows):
\* if (surplus !== null) runningTotalSurplus += surplus
RunningTotal(runningTotalSurplus, rows, i) ==
    IF i > Len(rows) THEN runningTotalSurplus
    ELSE RunningTotal(IF rows[i].surplus # Null
                      THEN runningTotalSurplus + rows[i].surplus.val
                      ELSE runningTotalSurplus,
                      rows, i + 1)

\* The rows FUTURE_YEARS.map returns and the running total its callback leaves,
\* from what the callback computed for every season.
ProjectionsOf(player, currentYearSalary, computed) ==
    [futureRows |-> [k \in DOMAIN computed |-> computed[k].row],
     rowLocals |-> [k \in DOMAIN computed |-> computed[k].locals],
     runningTotalSurplus |->
         RunningTotal(CurrentYearSurplus(player, currentYearSalary),
                      [k \in DOMAIN computed |-> computed[k].row], 1)]

\* What SalaryProjections computes before it renders.
SalaryProjections(player, games, minutes, improvement, currentYearSalary) ==
    ProjectionsOf(player, currentYearSalary,
                  [k \in 1..Len(FUTURE_YEARS) |->
                      FutureRow(player, games, minutes, improvement, FUTURE_YEARS[k], k - 1)])

\* A comparison as NBASalaryCalculator keeps it.
ComparisonOf(id, player, games, minutes, improvement) ==
    [id |-> id, selectedPlayer |-> player, games |-> games, minutes |-> minutes,
     improvement |-> improvement, searchTerm |-> player.name, showDropdown |-> FALSE]

NoPlayer ==
    [name |-> "", pos |-> "", age |-> 0, darko |-> 0,
     actualSalary |-> Undefined, futureSalaries |-> NoFutureSalaries]

NoComparison == ComparisonOf(0, NoPlayer, 0, 0, 0)

NoView ==
    [currentYearAgingDelta |-> NoValue, adjustedDarkoWithAging |-> NoValue,
     currentYearSalary |-> NoValue, futureRows |-> << >>, rowLocals |-> << >>,
     runningTotalSurplus |-> 0]

\* What PlayerDetails computed, with what the SalaryProjections it renders
\* computes from the props PlayerDetails passes to it.
ViewFrom(comp, details) ==
    details @@ SalaryProjections(comp.selectedPlayer, comp.games, comp.minutes,
                                 comp.improvement, details.currentYearSalary)

\* Everything a rendering of PlayerDetails with SalaryProjections computes.
ViewOf(comp) == ViewFrom(comp, PlayerDetails(comp))

(***************************************************************************)
(* NBASalaryCalculator when it is mounted                                  *)
(***************************************************************************)
\* The comparison useState starts with, and the one addComparison appends
\* with id Date.now().
NewComparison(id) ==
    [id |-> id, selectedPlayer |-> Null, games |-> 70, minutes |-> 30,
     improvement |-> 0, searchTerm |-> "", showDropdown |-> FALSE]

\* A reading of Date.now() when the page loads; the time since the epoch is
\* more than the 1 of the first comparison's id.
FirstClockReading == 2

\* The state of NBASalaryCalculator when it is mounted.
UIAtMount ==
    /\ playerData = << >>
    /\ loading = TRUE
    /\ error = Null
    /\ comparisons = << NewComparison(1) >>
    /\ clock = FirstClockReading

(***************************************************************************)
(* The calls: one function applied to arguments of the input grids, and    *)
(* possibly a second call of the same function with other arguments.       *)
(***************************************************************************)
DateGrid ==
    { DateOf(seasonStartDate + 49 * (k - 1)) : k \in 0..MaxDateIdx }
        \cup { DateOf(seasonEndDate), DateOf(dataAsOfDate), NoDate }

NoArgs ==
    [games |-> 0, minutes |-> 0, darko |-> 0, age |-> 0, position |-> "",
     asOfDate |-> NoDate, yearsForward |-> 0, includePartialCurrentYear |-> FALSE]

ArgsOf(f) ==
    CASE f = "calculateSalary" ->
           { [NoArgs EXCEPT !.games = g, !.minutes = m, !.darko = d] :
               g \in GamesGrid, m \in MinutesGrid, d \in ValuationRatingGrid }
      [] f = "getSeasonProgress" ->
           { [NoArgs EXCEPT !.asOfDate = t] : t \in DateGrid }
      [] f = "getAgingDelta" ->
           { [NoArgs EXCEPT !.age = a, !.position = p] : a \in AgeGrid, p \in PositionGrid }
      [] f = "getPartialYearAgingDelta" ->
           { [NoArgs EXCEPT !.age = a, !.position = p, !.asOfDate = t] :
               a \in AgeGrid, p \in PositionGrid, t \in DateGrid }
      [] f = "getCumulativeAgingDelta" ->
           { [NoArgs EXCEPT !.age = a, !.position = p, !.yearsForward = n,
                            !.includePartialCurrentYear = b] :
               a \in AgeGrid, p \in PositionGrid, n \in 0..MaxYearsForward, b \in BOOLEAN }

\* The arguments of a second call: one argument of the first call changed.
SecondArgs(f, a) ==
    CASE f = "calculateSalary" ->
           { [a EXCEPT !.darko = d] : d \in ValuationRatingGrid }
             \cup { [a EXCEPT !.games = g] : g \in GamesGrid }
             \cup { [a EXCEPT !.minutes = m] : m \in MinutesGrid }
      [] f = "getSeasonProgress" ->
           { [a EXCEPT !.asOfDate = t] : t \in DateGrid }
      [] OTHER -> {}

Functions ==
    { "calculateSalary", "getSeasonProgress", "getAgingDelta",
      "getPartialYearAgingDelta", "getCumulativeAgingDelta" }

NoPrev == [valid |-> FALSE, args |-> NoArgs, ret |-> NoValue, obs |-> NoLocals]

Init ==
    /\ pc = "call"
    /\ op \in Functions
    /\ args \in ArgsOf(op)
    /\ ret = NoValue
    /\ obs = NoLocals
    /\ prev = NoPrev
    /\ props = NoComparison
    /\ view = NoView
    /\ UIAtMount

CallCalculateSalary ==
    /\ pc = "call"
    /\ op = "calculateSalary"
    /\ obs' = SalaryLocals(args.games, args.minutes, args.darko)
    /\ ret' = ReturnSalary(obs'.salary)
    /\ pc' = "done"
    /\ UNCHANGED <<op, args, prev>>
    /\ UNCHANGED renderVars
    /\ UNCHANGED uiVars

CallGetSeasonProgress ==
    /\ pc = "call"
    /\ op = "getSeasonProgress"
    /\ ret' = Number(getSeasonProgress(args.asOfDate))
    /\ pc' = "done"
    /\ UNCHANGED <<op, args, obs, prev>>
    /\ UNCHANGED renderVars
    /\ UNCHANGED uiVars

CallGetAgingDelta ==
    /\ pc = "call"
    /\ op = "getAgingDelta"
    /\ ret' = getAgingDelta(args.age, args.position)
    /\ pc' = "done"
    /\ UNCHANGED <<op, args, obs, prev>>
    /\ UNCHANGED renderVars
    /\ UNCHANGED uiVars

CallGetPartialYearAgingDelta ==
    /\ pc = "call"
    /\ op = "getPartialYearAgingDelta"
    /\ ret' = getPartialYearAgingDelta(args.age, args.position, args.asOfDate)
    /\ pc' = "done"
    /\ UNCHANGED <<op, args, obs, prev>>
    /\ UNCHANGED renderVars
    /\ UNCHANGED uiVars

CallGetCumulativeAgingDelta ==
    /\ pc = "call"
    /\ op = "getCumulativeAgingDelta"
    /\ ret' = getCumulativeAgingDelta(args.age, args.position, args.yearsForward,
                                      args.includePartialCurrentYear)
    /\ pc' = "done"
    /\ UNCHANGED <<op, args, obs, prev>>
    /\ UNCHANGED renderVars
    /\ UNCHANGED uiVars

\* The caller calls the function once more.
CallAgain ==
    /\ pc = "done"
    /\ ~prev.valid
    /\ \E a \in SecondArgs(op, args) :
         /\ args' = a
         /\ prev' = [valid |-> TRUE, args |-> args, ret |-> ret, obs |-> obs]
    /\ pc' = "call"
    /\ ret' = NoValue
    /\ obs' = NoLocals
    /\ UNCHANGED op
    /\ UNCHANGED renderVars
    /\ UNCHANGED uiVars

Next ==
    \/ CallCalculateSalary
    \/ CallGetSeasonProgress
    \/ CallGetAgingDelta
    \/ CallGetPartialYearAgingDelta
    \/ CallGetCumulativeAgingDelta
    \/ CallAgain

Spec == Init /\ [][Next]_vars

(***************************************************************************)
(* The renderings: PlayerDetails of one comparison with a selected player, *)
(* the player and the scenario drawn from the grids.                       *)
(***************************************************************************)
ComparisonGrid ==
    { ComparisonOf(1, p, g, m, i) :
        p \in PlayerGrid, g \in CompGamesGrid, m \in CompMinutesGrid,
        i \in CompImprovementGrid }

InitProjection ==
    /\ pc = "render"
    /\ op = "PlayerDetails"
    /\ args = NoArgs
    /\ ret = NoValue
    /\ obs = NoLocals
    /\ prev = NoPrev
    /\ props \in ComparisonGrid
    /\ view = NoView
    /\ UIAtMount

RenderPlayerDetails ==
    /\ pc = "render"
    /\ op = "PlayerDetails"
    /\ view' = ViewOf(props)
    /\ pc' = "shown"
    /\ UNCHANGED <<op, args, ret, obs, prev, props>>
    /\ UNCHANGED uiVars

NextProjection == RenderPlayerDetails

SpecProjection == InitProjection /\ [][NextProjection]_vars

(***************************************************************************)
(* NBASalaryCalculator: the comparisons and the handlers of their cards    *)
(***************************************************************************)
UpperToLower ==
    ( "A" :> "a" @@ "B" :> "b" @@ "C" :> "c" @@ "D" :> "d" @@ "E" :> "e" @@ "F" :> "f"
      @@ "G" :> "g" @@ "H" :> "h" @@ "I" :> "i" @@ "J" :> "j" @@ "K" :> "k" @@ "L" :> "l"
      @@ "M" :> "m" @@ "N" :> "n" @@ "O" :> "o" @@ "P" :> "p" @@ "Q" :> "q" @@ "R" :> "r"
      @@ "S" :> "s" @@ "T" :> "t" @@ "U" :> "u" @@ "V" :> "v" @@ "W" :> "w" @@ "X" :> "x"
      @@ "Y" :> "y" @@ "Z" :> "z" )

RECURSIVE toLowerCase(_)
toLowerCase(str) ==
    IF str = "" THEN ""
    ELSE (IF Head(str) \in DOMAIN UpperToLower THEN UpperToLower[Head(str)] ELSE Head(str))
           \o toLowerCase(Tail(str))

\* str.includes(part)
includes(str, part) ==
    \E i \in 1..(Len(str) - Len(part) + 1) : SubSeq(str, i, i + Len(part) - 1) = part

\* getFilteredPlayers of PlayerCard: at most ten players whose name contains
\* the search term, letter case apart; none for an empty term.
getFilteredPlayers(data, searchTerm) ==
    IF searchTerm = "" THEN << >>
    ELSE LET found == SelectSeq(data, LAMBDA p : includes(toLowerCase(p.name),
                                                          toLowerCase(searchTerm)))
         IN  SubSeq(found, 1, Min(10, Len(found)))

SpreadOverNewComparison(c, updates) ==
    [f \in DOMAIN c |-> IF f \in DOMAIN updates THEN updates[f] ELSE NewComparison(c.id)[f]]

\* { ...c, ...updates }
Spread(c, updates) ==
    [f \in DOMAIN c |-> IF f \in DOMAIN updates THEN updates[f] ELSE c[f]]

\* prev.map(c => c.id === id ? { ...c, ...updates } : c)
updateComparison(prevComparisons, id, updates) ==
    [j \in DOMAIN prevComparisons |->
        IF prevComparisons[j].id = id THEN Spread(prevComparisons[j], updates)
        ELSE prevComparisons[j]]

\* prev.filter(c => c.id !== id)
removeComparison(prevComparisons, id) ==
    SelectSeq(prevComparisons, LAMBDA c : c.id # id)

CardsRenderedDespiteError == ~loading

\* The cards are rendered once the data is loaded without error.
CardsRendered == ~loading /\ (error = Null \/ error = String(""))

\* What the card of each comparison shows: the valuations of PlayerDetails
\* when a player is selected.
Views ==
    [j \in DOMAIN comparisons |->
        IF comparisons[j].selectedPlayer # Null THEN ViewOf(comparisons[j]) ELSE NoView]

InitUI ==
    /\ pc = "mounted"
    /\ op = "NBASalaryCalculator"
    /\ args = NoArgs
    /\ ret = NoValue
    /\ obs = NoLocals
    /\ prev = NoPrev
    /\ props = NoComparison
    /\ view = NoView
    /\ UIAtMount

\* What the request for players.json ends with: a response that is ok and
\* whose body is the dataset, a response that is not ok, a request that
\* fails, a body that is not JSON.
FetchOutcomes ==
    { [kind |-> "ok", val |-> PlayersJson],
      [kind |-> "not ok", val |-> "404"],
      [kind |-> "not ok", val |-> "500"],
      [kind |-> "rejected", val |-> "Failed to fetch"],
      [kind |-> "bad json", val |-> "Unexpected token < in JSON at position 0"] }

\* What the first two steps of the promise chain make of it: the data
\* response.json() resolves with, or the error the chain is rejected with.
ChainResult(outcome) ==
    CASE outcome.kind = "ok" -> [kind |-> "data", val |-> outcome.val]
      [] outcome.kind = "not ok" ->
           [kind |-> "error", val |-> "HTTP error! status: " \o outcome.val]
      [] OTHER -> [kind |-> "error", val |-> outcome.val]

\* The effect of the mount calls fetch('players.json'); its list of
\* dependencies is empty, so it runs after the first rendering only.
FetchPlayers ==
    /\ pc = "mounted"
    /\ pc' = "fetching"
    /\ UNCHANGED <<op, args, ret, obs, prev>>
    /\ UNCHANGED renderVars
    /\ UNCHANGED uiVars

\* The request ends and the promise chain is settled, up to its last two
\* callbacks.
RequestSettles ==
    /\ pc = "fetching"
    /\ \E outcome \in FetchOutcomes : ret' = ChainResult(outcome)
    /\ pc' = "settled"
    /\ UNCHANGED <<op, args, obs, prev>>
    /\ UNCHANGED renderVars
    /\ UNCHANGED uiVars

\* .then(data => { setPlayerData(data); setLoading(false); })
FetchSucceeds ==
    /\ pc = "settled"
    /\ ret.kind = "data"
    /\ playerData' = ret.val
    /\ loading' = FALSE
    /\ pc' = "loaded"
    /\ UNCHANGED <<error, comparisons, clock>>
    /\ UNCHANGED <<op, args, ret, obs, prev>>
    /\ UNCHANGED renderVars

\* .catch(err => { setError(err.message); setLoading(false); })
FetchFails ==
    /\ pc = "settled"
    /\ ret.kind = "error"
    /\ error' = String(ret.val)
    /\ loading' = FALSE
    /\ pc' = "failed"
    /\ UNCHANGED <<playerData, comparisons, clock>>
    /\ UNCHANGED <<op, args, ret, obs, prev>>
    /\ UNCHANGED renderVars

\* Time passes.
Tick ==
    /\ clock < MaxClock
    /\ clock' = clock + 1
    /\ UNCHANGED <<playerData, loading, error, comparisons>>
    /\ UNCHANGED <<callVars, renderVars>>

\* A click on "Add Player Comparison".
AddComparison ==
    /\ CardsRendered
    /\ Len(comparisons) < MaxComparisons
    /\ comparisons' = Append(comparisons, NewComparison(clock))
    /\ UNCHANGED <<playerData, loading, error, clock>>
    /\ UNCHANGED <<callVars, renderVars>>

\* A click on the remove button of card i.
RemoveComparison(i) ==
    /\ CardsRendered
    /\ Len(comparisons) > 1
    /\ comparisons' = removeComparison(comparisons, comparisons[i].id)
    /\ UNCHANGED <<playerData, loading, error, clock>>
    /\ UNCHANGED <<callVars, renderVars>>

\* A slider of card i is moved: onUpdate(comp.id, { [field]: value }).
SliderChange(i, field, value) ==
    /\ CardsRendered
    /\ comparisons[i].selectedPlayer # Null
    /\ comparisons' = updateComparison(comparisons, comparisons[i].id, field :> value)
    /\ UNCHANGED <<playerData, loading, error, clock>>
    /\ UNCHANGED <<callVars, renderVars>>

\* The text of the search input of card i changes: handleSearchChange.
SearchChange(i, value) ==
    /\ CardsRendered
    /\ value # comparisons[i].searchTerm
    /\ comparisons' = updateComparison(comparisons, comparisons[i].id,
                                       [searchTerm |-> value, showDropdown |-> TRUE,
                                        selectedPlayer |-> Null])
    /\ UNCHANGED <<playerData, loading, error, clock>>
    /\ UNCHANGED <<callVars, renderVars>>

\* The search input of card i gets the focus.
Focus(i) ==
    /\ CardsRendered
    /\ comparisons' = updateComparison(comparisons, comparisons[i].id,
                                       [showDropdown |-> TRUE])
    /\ UNCHANGED <<playerData, loading, error, clock>>
    /\ UNCHANGED <<callVars, renderVars>>

\* A click on the k-th player of the dropdown of card i: selectPlayer.
SelectPlayer(i, k) ==
    LET comp == comparisons[i]
        filteredPlayers == getFilteredPlayers(playerData, comp.searchTerm)
    IN  /\ CardsRendered
        /\ comp.showDropdown /\ comp.selectedPlayer = Null
        /\ comp.searchTerm # ""
        /\ k \in DOMAIN filteredPlayers
        /\ comparisons' = updateComparison(comparisons, comp.id,
                                           [selectedPlayer |-> filteredPlayers[k],
                                            searchTerm |-> filteredPlayers[k].name,
                                            showDropdown |-> FALSE])
        /\ UNCHANGED <<playerData, loading, error, clock>>
        /\ UNCHANGED <<callVars, renderVars>>

\* The buttons of a rendering that add or remove a comparison: "Add Player
\* Comparison" and, with canRemove, the remove button of every card.
ListButtons(rendered) ==
    { [kind |-> "add", id |-> 0] }
        \cup { [kind |-> "remove", id |-> rendered[i].id] :
                 i \in { j \in DOMAIN rendered : Len(rendered) > 1 } }

\* The comparisons after the click handler of such a button, created by a
\* rendering with the comparisons `rendered` and called at the clock reading
\* `now`, has had its update applied to prevComparisons.
ClickOn(button, rendered, now, prevComparisons) ==
    IF button.kind = "add" THEN Append(prevComparisons, NewComparison(now))
    ELSE IF Len(rendered) > 1 THEN removeComparison(prevComparisons, button.id)
    ELSE prevComparisons

\* Two clicks on such buttons are handled before the component is rendered
\* again, their updates batched: both handlers are the ones of the same
\* rendering, the updates are applied one after the other.
BatchedClicks ==
    /\ CardsRendered
    /\ \E first \in ListButtons(comparisons), second \in ListButtons(comparisons) :
         \E later \in { clock, Min(clock + 1, MaxClock) } :
             LET batched == ClickOn(second, comparisons, later,
                                    ClickOn(first, comparisons, clock, comparisons))
             IN  /\ Len(batched) <= MaxComparisons
                 /\ comparisons' = batched
                 /\ clock' = later
    /\ UNCHANGED <<playerData, loading, error>>
    /\ UNCHANGED <<callVars, renderVars>>

\* The handlers of the cards on screen.
OnRemove == \E i \in DOMAIN comparisons : RemoveComparison(i)

OnSliderChange ==
    \E i \in DOMAIN comparisons :
        \E field \in DOMAIN SliderValues :
            \E value \in SliderValues[field] : SliderChange(i, field, value)

OnSearchChange ==
    \E i \in DOMAIN comparisons : \E value \in SearchTermGrid : SearchChange(i, value)

OnFocus == \E i \in DOMAIN comparisons : Focus(i)

OnSelectPlayer ==
    \E i \in DOMAIN comparisons : \E k \in 1..Len(PlayersJson) : SelectPlayer(i, k)

NextUI ==
    \/ FetchPlayers
    \/ RequestSettles
    \/ FetchSucceeds
    \/ FetchFails
    \/ Tick
    \/ AddComparison
    \/ OnRemove
    \/ BatchedClicks
    \/ OnSliderChange
    \/ OnSearchChange
    \/ OnFocus
    \/ OnSelectPlayer

SpecUI == InitUI /\ [][NextUI]_vars

\* The same with the scheduling of the callbacks: the effect of the mount is
\* run, and the callbacks of a settled promise are called. Nothing makes the
\* request end.
SpecUIFair ==
    /\ SpecUI
    /\ WF_vars(FetchPlayers)
    /\ WF_vars(FetchSucceeds)
    /\ WF_vars(FetchFails)

(***************************************************************************)
(* Valuation engine: properties                                            *)
(***************************************************************************)
Returned(f) == pc = "done" /\ op = f

\* s < n and s >= n for a salary s (a signed number of 1 / SalaryDen) and a
\* natural number n of millions
SalaryBelow(s, n) == s.neg \/ BigLess(s.num, BigMul(SalaryDen, n))

\* | t / 10 - s | <= 0.05 for a salary s >= 0 and a number t >= 1 of tenths
WithinHalfTenth(t, s) ==
    /\ BigLeq(BigMul(SalaryDen, 2 * t - 1), BigMul(s.num, 20))
    /\ BigLeq(BigMul(s.num, 20), BigMul(SalaryDen, 2 * t + 1))

\* C1: calculateSalary returns the minimum-salary sentinel exactly when the
\* computed salary (after the star / replacement adjustment) is below 3.0;
\* otherwise it returns a figure, and never a figure below 3.0.
C1_ValuationFloor ==
    Returned("calculateSalary") =>
        /\ (ret = MinimumSalary) <=> SalaryBelow(obs.salary, 3)
        /\ ret # MinimumSalary => (ret.kind = "fixed1" /\ ret.val >= 30)

\* A call whose computed salary is positive and below 3.0 has returned.
C1_Witness ==
    /\ Returned("calculateSalary")
    /\ ~obs.salary.neg
    /\ obs.salary.num # << >>
    /\ SalaryBelow(obs.salary, 3)
    /\ ret = MinimumSalary

C3_BoostSymmetry ==
    Returned("calculateSalary") =>
        /\ 0 <= obs.cappedBoost
        /\ 10 * obs.cappedBoost <= BoostScale
        /\ args.darko > 0 => obs.factor = BoostScale + obs.cappedBoost
        /\ args.darko < 0 => obs.factor = BoostScale - obs.cappedBoost
        /\ ( /\ prev.valid
             /\ prev.args.games = args.games
             /\ prev.args.minutes = args.minutes
             /\ prev.args.darko = -args.darko
             /\ args.darko # 0 )
           => /\ obs.cappedBoost = prev.obs.cappedBoost
              /\ obs.factor + prev.obs.factor = 2 * BoostScale

\* Two calls with opposite ratings and a boost strictly between 0 and the cap.
C3_Witness ==
    /\ Returned("calculateSalary")
    /\ prev.valid
    /\ prev.args.darko = -args.darko
    /\ args.darko < 0
    /\ obs.cappedBoost > 0
    /\ 10 * obs.cappedBoost < BoostScale
    /\ obs.factor < BoostScale
    /\ prev.obs.factor > BoostScale

IsExampleStar == args.games = 75 /\ args.minutes = 35 /\ args.darko = 5 * RatingScale

\* C4 as stated: calculateSalary(75, 35, 5.0) has the boost capped at 0.10
\* and returns 67.6.
C4_Original ==
    (Returned("calculateSalary") /\ IsExampleStar) =>
        (10 * obs.cappedBoost = BoostScale /\ ret = Fixed1(676))

\* C4 amended: calculateSalary(75, 35, 5.0) has the boost capped at 0.10 and
\* returns 67.7 (the salary 67.6555... rounded to one decimal).
C4_StarExample ==
    (Returned("calculateSalary") /\ IsExampleStar) =>
        (10 * obs.cappedBoost = BoostScale /\ ret = Fixed1(677))

C4_Witness == Returned("calculateSalary") /\ IsExampleStar /\ ret.kind = "fixed1"

IsExampleMinimum ==
    args.games = 30 /\ args.minutes = 10 /\ 2 * args.darko = -5 * RatingScale

\* C5: calculateSalary(30, 10, -2.5) returns the minimum-salary sentinel,
\* not a figure.
C5_MinimumExample ==
    (Returned("calculateSalary") /\ IsExampleMinimum) => ret = MinimumSalary

C5_Witness ==
    /\ Returned("calculateSalary")
    /\ IsExampleMinimum
    /\ ~obs.salary.neg
    /\ obs.salary.num # << >>
    /\ ret.kind # "none"

(***************************************************************************)
(* Season clock and aging model: properties                                *)
(***************************************************************************)
KnownPositions == { "pg_pos", "sg_pos", "sf_pos", "pf_pos", "c_pos" }

\* pg / sg are guards, sf is a wing, pf / c are bigs.
CategoryOfKnown(position) ==
    IF position \in { "pg_pos", "sg_pos" } THEN "guard"
    ELSE IF position = "sf_pos" THEN "wing"
    ELSE "big"

\* min(36, max(20, floor(age))) for an age in tenths of a year
ClampedAge(age) ==
    IF age < 20 * AgeScale THEN 20
    ELSE IF age >= 37 * AgeScale THEN 36
    ELSE CHOOSE y \in 20..36 : y * AgeScale <= age /\ age < (y + 1) * AgeScale

\* C6: for every position of the three categories and every age, integer or
\* fractional, getAgingDelta returns a defined number, the table entry at
\* min(36, max(20, floor(age))): the entry of age 20 below 20, of age 36 above.
C6_AgingTableTotal ==
    (Returned("getAgingDelta") /\ args.position \in KnownPositions) =>
        LET curve == AGING_CURVES[CategoryOfKnown(args.position)]
        IN  /\ 20..36 \subseteq DOMAIN curve
            /\ ret.kind = "number"
            /\ ret.val = curve[ClampedAge(args.age)] * seasonDuration
            /\ args.age < 20 * AgeScale => ret.val = curve[20] * seasonDuration
            /\ args.age > 36 * AgeScale => ret.val = curve[36] * seasonDuration

\* A lookup below age 20 and one at a fractional age above 36 are both
\* reached; the witness is the first.
C6_Witness ==
    /\ Returned("getAgingDelta")
    /\ args.position = "c_pos"
    /\ args.age < 20 * AgeScale
    /\ ret = Number(75 * seasonDuration)

\* C7 as stated: for every position that is not one of the five codes,
\* getAgingDelta returns, without failing, what it returns for 'sf_pos' at
\* that age.
C7_Original ==
    (Returned("getAgingDelta") /\ args.position \notin KnownPositions) =>
        /\ ret.kind = "number"
        /\ ret = getAgingDelta(args.age, "sf_pos")

\* The as-of day of a call (the data date when the argument is left out).
AsOfDay(a) == IF a.asOfDate.given THEN a.asOfDate.day ELSE dataAsOfDate

\* C8: getSeasonProgress is clamp((asOf - start) / (end - start), 0, 1): in
\* [0, 1], 0 at or before the season start, 1 at or after the season end,
\* and a later as-of date never gives a smaller progress.
C8_SeasonProgress ==
    Returned("getSeasonProgress") =>
        LET elapsed == AsOfDay(args) - seasonStartDate
            duration == seasonEndDate - seasonStartDate
        IN  /\ ret.kind = "number"
            /\ 0 <= ret.val /\ ret.val <= duration
            /\ ret.val = (IF elapsed < 0 THEN 0
                          ELSE IF elapsed > duration THEN duration ELSE elapsed)
            /\ AsOfDay(args) <= seasonStartDate => ret.val = 0
            /\ AsOfDay(args) >= seasonEndDate => ret.val = duration
            /\ (prev.valid /\ AsOfDay(prev.args) <= AsOfDay(args))
                  => prev.ret.val <= ret.val

\* Two calls within the season, the later one with the larger progress.
C8_Witness ==
    /\ Returned("getSeasonProgress")
    /\ prev.valid
    /\ AsOfDay(prev.args) < AsOfDay(args)
    /\ 0 < prev.ret.val
    /\ prev.ret.val < ret.val
    /\ ret.val < seasonDuration

\* C9 as stated: for every age, position and as-of date
\* getPartialYearAgingDelta is getAgingDelta(age, position) times
\* getSeasonProgress(asOfDate): 0 before the season starts, the full-year
\* delta after it ends, of the sign of the full-year delta and no larger.
C9_Original ==
    Returned("getPartialYearAgingDelta") =>
        LET full == getAgingDelta(args.age, args.position)
            progress == getSeasonProgress(args.asOfDate)
        IN  /\ ret.kind = "number"
            /\ ret.val * seasonDuration = full.val * progress
            /\ AsOfDay(args) <= seasonStartDate => ret.val = 0
            /\ AsOfDay(args) >= seasonEndDate => ret.val = full.val
            /\ ret.val * full.val >= 0
            /\ Abs(ret.val) <= Abs(full.val)

RECURSIVE SumOfDeltas(_, _, _)
\* getAgingDelta(age, pos) + ... + getAgingDelta(age + n - 1, pos)
SumOfDeltas(age, position, n) ==
    IF n = 0 THEN Number(0)
    ELSE Plus(SumOfDeltas(age, position, n - 1),
              getAgingDelta(age + (n - 1) * AgeScale, position))

Shown == pc = "shown" /\ op = "PlayerDetails"

\* The aging category of a position of a player record.
CategoryOfPlayer(position) ==
    IF position \in KnownPositions THEN CategoryOfKnown(position) ELSE "wing"

\* The table entry of a player of the given age and position, in rating units.
FullYearDeltaOf(age, position) ==
    AGING_CURVES[CategoryOfPlayer(position)][ClampedAge(age)] * seasonDuration

\* C11: the current-season valuation of a selected player under a scenario
\* is calculateSalary(games, minutes, rating) with rating = player.darko +
\* manual adjustment + partial-year aging delta, the delta being the
\* full-year delta of the player's age and position times the season
\* progress at the data date.
C11_CurrentSeasonValuation ==
    Shown =>
        LET player == props.selectedPlayer
            progress == dataAsOfDate - seasonStartDate
            partial == (FullYearDeltaOf(player.age, player.pos) * progress) \div seasonDuration
            rating == player.darko + props.improvement + partial
        IN  /\ view.currentYearAgingDelta = Number(partial)
            /\ view.currentYearAgingDelta
                 = getPartialYearAgingDelta(player.age, player.pos, NoDate)
            /\ view.adjustedDarkoWithAging = Number(rating)
            /\ view.currentYearSalary = calculateSalary(props.games, props.minutes, rating)

\* A valuation of the current season with a figure, made with an adjustment
\* and a partial-year delta that are both different from 0.
C11_Witness ==
    /\ Shown
    /\ props.improvement # 0
    /\ view.currentYearAgingDelta.kind = "number"
    /\ view.currentYearAgingDelta.val < 0
    /\ view.currentYearAgingDelta.val # FullYearDeltaOf(props.selectedPlayer.age,
                                                       props.selectedPlayer.pos)
    /\ view.currentYearSalary.kind = "fixed1"

RECURSIVE SumOfFullYearDeltas(_, _, _)
\* The table entries of the ages age, age + 1, ..., age + n - 1.
SumOfFullYearDeltas(age, position, n) ==
    IF n = 0 THEN 0
    ELSE SumOfFullYearDeltas(age, position, n - 1)
           + FullYearDeltaOf(age + (n - 1) * AgeScale, position)

\* C12: the rating of future season k (1..5) is player.darko + adjustment +
\* the cumulative delta of k full years from the current age, which is
\* getCumulativeAgingDelta(age, pos, k, false); the partial-year delta is in
\* the rating of the current season only, so no future row depends on the
\* season progress.
C12_NoDoubleCounting ==
    Shown =>
        LET player == props.selectedPlayer
            base == player.darko + props.improvement
        IN  /\ view.adjustedDarkoWithAging.val - base = view.currentYearAgingDelta.val
            /\ \A k \in 1..Len(FUTURE_YEARS) :
                 LET locals == view.rowLocals[k]
                     full == SumOfFullYearDeltas(player.age, player.pos, k)
                 IN  /\ locals.cumulativeDelta
                          = getCumulativeAgingDelta(player.age, player.pos, k, FALSE)
                     /\ locals.cumulativeDelta = Number(full)
                     /\ locals.projectedDarko = Number(base + full)
                     /\ locals.rawSalary
                          = calculateSalary(props.games, props.minutes, base + full)

\* Projections of a player whose partial-year delta and cumulative deltas
\* are all different from 0.
C12_Witness ==
    /\ Shown
    /\ view.currentYearAgingDelta.val # 0
    /\ \A k \in 1..Len(FUTURE_YEARS) :
         /\ view.rowLocals[k].cumulativeDelta.kind = "number"
         /\ view.rowLocals[k].cumulativeDelta.val # 0
         /\ view.rowLocals[k].cumulativeDelta.val # view.currentYearAgingDelta.val
    /\ view.rowLocals[3].rawSalary.kind = "fixed1"

\* Season labels INFLATION_SCALERS has no entry for.
UnmappedSeasonLabels == { "2025-26", "2031-32" }

\* C13: for every future season whose raw valuation is a figure, the
\* projected value is that figure times the season's entry of
\* INFLATION_SCALERS (every label of FUTURE_YEARS has one), and the callback
\* multiplies by 1.0 for a season label without an entry.  (A number of
\* tenths times a number of thousandths is a number of 1 / MoneyScale.)
C13_Inflation ==
    Shown =>
        /\ \A k \in 1..Len(FUTURE_YEARS) :
             LET locals == view.rowLocals[k]
             IN  locals.rawSalary.kind = "fixed1" =>
                   /\ FUTURE_YEARS[k] \in DOMAIN INFLATION_SCALERS
                   /\ MoneyScale = 10 * 1000
                   /\ locals.inflatedValue
                        = locals.rawSalary.val * INFLATION_SCALERS[FUTURE_YEARS[k]]
                   /\ view.futureRows[k].displaySalary
                        = [kind |-> "$M", val |-> (locals.inflatedValue + 500) \div 1000]
        /\ \A label \in UnmappedSeasonLabels :
             LET player == props.selectedPlayer
                 locals == FutureRow(player, props.games, props.minutes,
                                     props.improvement, label, 0).locals
             IN  locals.rawSalary.kind = "fixed1" =>
                   locals.inflatedValue = locals.rawSalary.val * (MoneyScale \div 10)

\* A row of 2030-31 with a figure: the projected value is 1.305 times it.
C13_Witness ==
    /\ Shown
    /\ view.rowLocals[5].rawSalary.kind = "fixed1"
    /\ view.futureRows[5].seasonLabel = "2030-31"
    /\ view.rowLocals[5].inflatedValue = 1305 * view.rowLocals[5].rawSalary.val
    /\ view.rowLocals[1].rawSalary.kind = "fixed1"
    /\ view.rowLocals[1].inflatedValue > view.rowLocals[1].rawSalary.val * (MoneyScale \div 10)

\* The player has a contracted salary different from 0 for the season.
HasFutureSalary(player, seasonLabel) ==
    /\ player.futureSalaries.given
    /\ seasonLabel \in DOMAIN player.futureSalaries.map
    /\ player.futureSalaries.map[seasonLabel] # 0

\* C14: the surplus of a future row is defined exactly when the player has an
\* actual salary different from 0 for the row's season, and is then the
\* inflated projected value minus that salary; when futureSalaries is
\* missing or has no figure for the season the surplus is null and nothing
\* fails.
C14_SeasonSurplus ==
    Shown =>
        \A k \in 1..Len(FUTURE_YEARS) :
            LET player == props.selectedPlayer
                row == view.futureRows[k]
            IN  /\ row.actualSalary.kind \in { "number", "undefined" }
                /\ row.surplus.kind \in { "number", "null" }
                /\ (row.surplus # Null) <=> HasFutureSalary(player, row.seasonLabel)
                /\ HasFutureSalary(player, row.seasonLabel) =>
                     row.surplus = Number(view.rowLocals[k].inflatedValue
                                            - player.futureSalaries.map[row.seasonLabel])
                /\ ~player.futureSalaries.given =>
                     (row.actualSalary = Undefined /\ row.surplus = Null)

\* Rows of a player paid 27.5 in 2026-27, 0 in 2027-28 and nothing known in
\* 2028-29: a surplus in the first row, none in the other two.
C14_Witness ==
    /\ Shown
    /\ props.selectedPlayer.futureSalaries.given
    /\ view.rowLocals[1].rawSalary.kind = "fixed1"
    /\ view.futureRows[1].surplus.kind = "number"
    /\ view.futureRows[1].surplus.val < 0
    /\ view.futureRows[2].actualSalary = Number(0)
    /\ view.futureRows[2].surplus = Null
    /\ view.futureRows[3].actualSalary = Undefined
    /\ view.futureRows[3].surplus = Null

RECURSIVE SumOfFutureSurpluses(_, _, _)
\* The sum of the surpluses of the first n rows that have one.
SumOfFutureSurpluses(player, rowLocals, n) ==
    IF n = 0 THEN 0
    ELSE SumOfFutureSurpluses(player, rowLocals, n - 1)
           + (IF HasFutureSalary(player, FUTURE_YEARS[n])
              THEN rowLocals[n].inflatedValue - player.futureSalaries.map[FUTURE_YEARS[n]]
              ELSE 0)

\* C15: the total contract surplus is the surplus of the current season
\* (the current valuation, 0 for the sentinel, minus player.actualSalary),
\* counted only when player.actualSalary is there and not 0, plus the
\* surpluses of the future rows that have one.
C15_RunningTotal ==
    Shown =>
        LET player == props.selectedPlayer
            current == IF view.currentYearSalary.kind = "fixed1"
                       THEN view.currentYearSalary.val * (MoneyScale \div 10)
                       ELSE 0
            currentSurplus == IF player.actualSalary.kind = "number"
                                   /\ player.actualSalary.val # 0
                              THEN current - player.actualSalary.val
                              ELSE 0
        IN  view.runningTotalSurplus
              = currentSurplus
                  + SumOfFutureSurpluses(player, view.rowLocals, Len(FUTURE_YEARS))

\* A total made of a current-season surplus and the surpluses of two rows.
C15_Witness ==
    /\ Shown
    /\ Truthy(props.selectedPlayer.actualSalary)
    /\ view.currentYearSalary.kind = "fixed1"
    /\ view.futureRows[1].surplus.kind = "number"
    /\ view.futureRows[4].surplus.kind = "number"
    /\ view.futureRows[4].surplus.val > 0
    /\ view.runningTotalSurplus
         = view.currentYearSalary.val * (MoneyScale \div 10)
             - props.selectedPlayer.actualSalary.val
             + view.futureRows[1].surplus.val + view.futureRows[4].surplus.val

\* C16: a projection has exactly five future rows, in the order of
\* FUTURE_YEARS: row k (1..5) has the label of season k, 2026-27 to 2030-31,
\* and the projected age player.age + k.
C16_OutputShape ==
    Shown =>
        LET labels == << "2026-27", "2027-28", "2028-29", "2029-30", "2030-31" >>
        IN  /\ Len(view.futureRows) = 5
            /\ DOMAIN view.futureRows = 1..5
            /\ \A k \in 1..5 :
                 /\ k \in DOMAIN view.futureRows
                 /\ view.futureRows[k].seasonLabel = labels[k]
                 /\ view.futureRows[k].seasonLabel = FUTURE_YEARS[k]
                 /\ view.futureRows[k].projectedAge
                      = props.selectedPlayer.age + k * AgeScale

\* The rows of a player aged 25.4: the ages 26.4, ..., 30.4.
C16_Witness ==
    /\ Shown
    /\ props.selectedPlayer.age = 254
    /\ Len(view.futureRows) = 5
    /\ view.futureRows[1].projectedAge = 264
    /\ view.futureRows[5].projectedAge = 304
    /\ view.futureRows[5].seasonLabel = "2030-31"

\* (games * minutes / 1475) * (rating + 3) * 4.32 with the star bonus or
\* replacement penalty of the rating, for the numbers as they are given.
UnclampedSalary(games, minutes, rating) ==
    LET aboveReplacement == rating + 3 * RatingScale
        boost == Min(boostFactor(rating), BoostScale \div 10)
        adjustment == IF rating > 0 THEN BoostScale + boost
                      ELSE IF rating < 0 THEN BoostScale - boost
                      ELSE BoostScale
        num == BigMul(BigMul(BigMul(BigOf(games * minutes), Abs(aboveReplacement)), 432),
                      adjustment)
    IN  [neg |-> aboveReplacement < 0 /\ num # << >>, num |-> num]

\* The valuation is made with a games, minutes or adjustment value outside
\* the range of its slider.
OutsideSliders ==
    \/ props.games < 1 \/ props.games > 82
    \/ props.minutes < 0 \/ props.minutes > 48
    \/ props.improvement < -5 * RatingScale \/ props.improvement > 5 * RatingScale

\* C19: games, minutes and adjustment are used as given, also outside the
\* ranges 1-82, 0-48 and -5..+5 of the sliders: the valuations are the
\* formula applied to the given numbers.  Only the age is clamped, to 20..36,
\* and only for the table lookup: the projected age of a row is not.
C19_NoImplicitClamping ==
    Shown =>
        LET player == props.selectedPlayer
            clamped == Max(20 * AgeScale, Min(36 * AgeScale, player.age))
        IN  /\ view.adjustedDarkoWithAging.val - player.darko - view.currentYearAgingDelta.val
                 = props.improvement
            /\ view.currentYearSalary
                 = ReturnSalary(UnclampedSalary(props.games, props.minutes,
                                                view.adjustedDarkoWithAging.val))
            /\ \A k \in 1..Len(FUTURE_YEARS) :
                 /\ view.rowLocals[k].projectedDarko.val - player.darko
                        - view.rowLocals[k].cumulativeDelta.val
                      = props.improvement
                 /\ view.rowLocals[k].rawSalary
                      = ReturnSalary(UnclampedSalary(props.games, props.minutes,
                                                     view.rowLocals[k].projectedDarko.val))
                 /\ view.futureRows[k].projectedAge = player.age + k * AgeScale
            /\ view.currentYearAgingDelta
                 = getPartialYearAgingDelta(clamped, player.pos, NoDate)
            /\ view.rowLocals[1].cumulativeDelta = getAgingDelta(clamped, player.pos)

\* A valuation with 90 games, 50 minutes and an adjustment of -5.5 for a
\* player younger than 20, all rows of which are figures.
C19_Witness ==
    /\ Shown
    /\ OutsideSliders
    /\ props.games = 90
    /\ props.minutes = 50
    /\ 2 * props.improvement = -11 * RatingScale
    /\ props.selectedPlayer.age < 20 * AgeScale
    /\ view.currentYearSalary.kind = "fixed1"
    /\ \A k \in 1..Len(FUTURE_YEARS) : view.rowLocals[k].rawSalary.kind = "fixed1"

(***************************************************************************)
(* Documented examples of getCumulativeAgingDelta                          *)
(***************************************************************************)
\* A call getCumulativeAgingDelta(age, position, 3) with age a whole number
\* of years has returned.
ReturnedCumulativeExample(age, position) ==
    /\ Returned("getCumulativeAgingDelta")
    /\ args.age = age * AgeScale
    /\ args.position = position
    /\ args.yearsForward = 3
    /\ ~args.includePartialCurrentYear

\* ret is the number of hundredths h when rounded to two decimals.
ReturnsAbout(h) ==
    /\ ret.kind = "number"
    /\ 2 * Abs(ret.val - h * seasonDuration) <= seasonDuration

\* C20 as stated: getCumulativeAgingDelta(25, 'sf_pos', 3) is about 0.03 and
\* getCumulativeAgingDelta(32, 'c_pos', 3) is about -2.12.
C20_Original ==
    /\ ReturnedCumulativeExample(25, "sf_pos") => ReturnsAbout(3)
    /\ ReturnedCumulativeExample(32, "c_pos") => ReturnsAbout(-212)

(***************************************************************************)
(* Comparisons on screen: properties                                       *)
(***************************************************************************)
\* An update of card i: a slider is moved, the search text changes or a
\* player is selected.
UpdateEventAt(i) ==
    \/ \E field \in DOMAIN SliderValues :
         \E value \in SliderValues[field] : SliderChange(i, field, value)
    \/ \E value \in SearchTermGrid : SearchChange(i, value)
    \/ \E k \in 1..Len(PlayersJson) : SelectPlayer(i, k)

\* C18 as stated: with several comparisons on screen, an update of one
\* comparison's games, minutes, adjustment, search term or selected player
\* leaves every other comparison unchanged, whatever the order of the update
\* events: its inputs, which are all that the outputs of its card (Views)
\* are computed from.
C18_Original ==
    [][ \A i \in DOMAIN comparisons :
          UpdateEventAt(i) =>
              \A j \in DOMAIN comparisons \ {i} :
                  /\ j \in DOMAIN comparisons'
                  /\ comparisons'[j] = comparisons[j] ]_vars

(***************************************************************************)
(* Documented examples of calculateSalary                                  *)
(***************************************************************************)
\* C21 as stated: calculateSalary(75, 35, 5.0) returns "52.3", the figure of
\* the example in the documentation of the function.
C21_Original ==
    (Returned("calculateSalary") /\ IsExampleStar) => ret = Fixed1(523)

(***************************************************************************)
(* The minimum-salary sentinel in the surplus arithmetic                   *)
(***************************************************************************)
\* The player has a current actual salary different from 0.
HasCurrentSalary(player) ==
    player.actualSalary.kind = "number" /\ player.actualSalary.val # 0

\* The valuation of future season k is the sentinel and the player has an
\* actual salary for that season.
SentinelSeason(k) ==
    /\ view.rowLocals[k].rawSalary = MinimumSalary
    /\ HasFutureSalary(props.selectedPlayer, FUTURE_YEARS[k])

RECURSIVE SalariesOfSentinelSeasons(_)
\* The sum of the actual salaries of the sentinel seasons among the first n.
SalariesOfSentinelSeasons(n) ==
    IF n = 0 THEN 0
    ELSE SalariesOfSentinelSeasons(n - 1)
           + (IF SentinelSeason(n)
              THEN props.selectedPlayer.futureSalaries.map[FUTURE_YEARS[n]]
              ELSE 0)

RECURSIVE SurplusesOfValuedSeasons(_)
\* The sum of the surpluses of the rows among the first n that have one and
\* whose valuation is a figure.
SurplusesOfValuedSeasons(n) ==
    IF n = 0 THEN 0
    ELSE SurplusesOfValuedSeasons(n - 1)
           + (IF view.futureRows[n].surplus # Null
                   /\ view.rowLocals[n].rawSalary # MinimumSalary
              THEN view.futureRows[n].surplus.val
              ELSE 0)

\* What the current season adds to the total: the valuation (0 for the
\* sentinel) minus the actual salary, when the player has one.
CurrentSeasonShare ==
    IF HasCurrentSalary(props.selectedPlayer)
    THEN (IF view.currentYearSalary = MinimumSalary THEN 0
          ELSE view.currentYearSalary.val * (MoneyScale \div 10))
           - props.selectedPlayer.actualSalary.val
    ELSE 0

\* C22: when the valuation of a season is the minimum-salary sentinel and the
\* player has an actual salary (a figure different from 0) for that season,
\* the projected value is 0 and the season's surplus is minus the actual
\* salary, for the future seasons and for the current one, and these amounts
\* are what the sentinel seasons add to the running total.
C22_SentinelSurplus ==
    Shown =>
        /\ \A k \in 1..Len(FUTURE_YEARS) :
              SentinelSeason(k) =>
                  /\ view.rowLocals[k].inflatedValue = 0
                  /\ view.futureRows[k].surplus =
                        Number(0 - props.selectedPlayer.futureSalaries.map[FUTURE_YEARS[k]])
        /\ view.runningTotalSurplus
              = CurrentSeasonShare + SurplusesOfValuedSeasons(Len(FUTURE_YEARS))
                  - SalariesOfSentinelSeasons(Len(FUTURE_YEARS))
        /\ (view.currentYearSalary = MinimumSalary /\ HasCurrentSalary(props.selectedPlayer))
              => CurrentSeasonShare = 0 - props.selectedPlayer.actualSalary.val

\* A player paid 25.0 now, 27.5 in 2026-27 and 1.2 in 2029-30 with 0 games a
\* season: every valuation is the sentinel and the total is -53.7.
C22_Witness ==
    /\ Shown
    /\ props.games = 0
    /\ view.currentYearSalary = MinimumSalary
    /\ HasCurrentSalary(props.selectedPlayer)
    /\ SentinelSeason(1)
    /\ SentinelSeason(4)
    /\ 2 * view.futureRows[1].surplus.val = 0 - 55 * MoneyScale
    /\ 10 * view.runningTotalSurplus = 0 - 537 * MoneyScale

(***************************************************************************)
(* Monotonicity of calculateSalary                                         *)
(***************************************************************************)
\* The result a is at most the result b, the sentinel being lower than
\* every figure.
SalaryLeq(a, b) ==
    \/ a = MinimumSalary
    \/ a.kind = "fixed1" /\ b.kind = "fixed1" /\ a.val <= b.val

\* Two calls of calculateSalary have returned, the second with the same
\* arguments as the first but for the one named.
TwoValuationsDifferingIn(field) ==
    /\ Returned("calculateSalary")
    /\ prev.valid
    /\ \A f \in { "games", "minutes", "darko" } \ { field } : prev.args[f] = args[f]

\* C23: with games > 0 and minutes > 0 fixed, calculateSalary is
\* non-decreasing in the rating, the sentinel counting as lower than every
\* figure, also from a negative to a positive rating; with a rating above -3
\* fixed it is non-decreasing in games and in minutes.
C23_Monotonicity ==
    /\ ( /\ TwoValuationsDifferingIn("darko")
         /\ args.games > 0
         /\ args.minutes > 0
         /\ prev.args.darko <= args.darko )
           => SalaryLeq(prev.ret, ret)
    /\ ( /\ TwoValuationsDifferingIn("games")
         /\ args.darko > REPLACEMENT_LEVEL_DARKO * RatingScale
         /\ prev.args.games <= args.games )
           => SalaryLeq(prev.ret, ret)
    /\ ( /\ TwoValuationsDifferingIn("minutes")
         /\ args.darko > REPLACEMENT_LEVEL_DARKO * RatingScale
         /\ prev.args.minutes <= args.minutes )
           => SalaryLeq(prev.ret, ret)

\* A valuation at a negative rating and a higher one at a positive rating,
\* both figures.
C23_Witness ==
    /\ TwoValuationsDifferingIn("darko")
    /\ args.games > 0
    /\ args.minutes > 0
    /\ prev.args.darko < 0
    /\ args.darko > 0
    /\ prev.ret.kind = "fixed1"
    /\ ret.kind = "fixed1"
    /\ prev.ret.val < ret.val

(***************************************************************************)
(* The threshold of the cap of the boost                                   *)
(***************************************************************************)
\* C24: the boost is exactly 0.10 for every rating with |rating| >= 4, the
\* multiplier then being 1.10 from rating 4 on and 0.90 up to rating -4; it
\* is strictly below 0.10 for |rating| < 4, and 0 at rating 0.
C24_CapThreshold ==
    Returned("calculateSalary") =>
        /\ Abs(args.darko) >= 4 * RatingScale => 10 * obs.cappedBoost = BoostScale
        /\ args.darko >= 4 * RatingScale => 10 * obs.factor = 11 * BoostScale
        /\ args.darko <= -4 * RatingScale => 10 * obs.factor = 9 * BoostScale
        /\ Abs(args.darko) < 4 * RatingScale => 10 * obs.cappedBoost < BoostScale
        /\ args.darko = 0 => obs.cappedBoost = 0

\* Two calls, one with the rating just below 4 and a boost short of the cap
\* by less than a thousandth of it, one with the rating just above 4 and the
\* boost at the cap.
C24_Witness ==
    /\ TwoValuationsDifferingIn("darko")
    /\ prev.args.darko = 4 * RatingScale - 1
    /\ 10 * prev.obs.cappedBoost < BoostScale
    /\ 10010 * prev.obs.cappedBoost > 1000 * BoostScale
    /\ args.darko = 4 * RatingScale + 1
    /\ 10 * obs.cappedBoost = BoostScale

(***************************************************************************)
(* The list of comparisons                                                 *)
(***************************************************************************)
\* C25 as stated: from the one comparison the application starts with, the
\* list of comparisons holds at least one comparison after any sequence of
\* addComparison and removeComparison events, however they are batched.
C25_Original == Len(comparisons) >= 1

\* C26 as stated: the ids of the comparisons are pairwise distinct in every
\* reachable state.
C26_Original ==
    \A i, j \in DOMAIN comparisons : comparisons[i].id = comparisons[j].id => i = j

(***************************************************************************)
(* Searching and selecting a player                                        *)
(***************************************************************************)
\* The games, minutes and manual adjustment of comparison i stay as they are.
SlidersUnchanged(i) ==
    /\ comparisons'[i].games = comparisons[i].games
    /\ comparisons'[i].minutes = comparisons[i].minutes
    /\ comparisons'[i].improvement = comparisons[i].improvement

\* An edit of the search term of comparison i clears the selected player and
\* opens the dropdown.
SearchProtocol(i) ==
    \A value \in SearchTermGrid :
        SearchChange(i, value) =>
            /\ comparisons'[i].searchTerm = value
            /\ comparisons'[i].selectedPlayer = Null
            /\ comparisons'[i].showDropdown
            /\ SlidersUnchanged(i)

\* The selection of a player in comparison i sets the selected player and
\* the search term and closes the dropdown.
SelectProtocol(i) ==
    \A k \in 1..Len(PlayersJson) :
        SelectPlayer(i, k) =>
            /\ comparisons'[i].selectedPlayer # Null
            /\ comparisons'[i].selectedPlayer \in { playerData[n] : n \in DOMAIN playerData }
            /\ includes(toLowerCase(comparisons'[i].selectedPlayer.name),
                        toLowerCase(comparisons[i].searchTerm))
            /\ comparisons'[i].searchTerm = comparisons'[i].selectedPlayer.name
            /\ ~comparisons'[i].showDropdown
            /\ SlidersUnchanged(i)

\* C27: editing the search term of a comparison clears its selected player
\* and opens its dropdown; selecting a player sets the selected player, sets
\* the search term to the player's name and closes the dropdown; both leave
\* the comparison's games, minutes and manual adjustment unchanged; and a
\* card shows a valuation exactly while its comparison has a selected player.
C27_SearchSelectProtocol ==
    /\ [](\A j \in DOMAIN comparisons :
            (comparisons[j].selectedPlayer = Null) <=> (Views[j] = NoView))
    /\ [][\A i \in DOMAIN comparisons : SearchProtocol(i) /\ SelectProtocol(i)]_vars

\* A comparison whose sliders were all moved while a player was selected and
\* whose search term was edited afterwards, next to one with a player
\* selected from the dropdown.
C27_Witness ==
    /\ Len(comparisons) = 2
    /\ \E i, j \in DOMAIN comparisons :
         /\ comparisons[i].selectedPlayer = Null
         /\ comparisons[i].searchTerm = "o"
         /\ comparisons[i].showDropdown
         /\ comparisons[i].games = 82
         /\ comparisons[i].minutes = 36
         /\ comparisons[i].improvement # 0
         /\ comparisons[j].selectedPlayer # Null
         /\ comparisons[j].searchTerm = "Al"
         /\ ~comparisons[j].showDropdown
         /\ comparisons[j].games = 82
         /\ Views[j] # NoView

(***************************************************************************)
(* The load of the dataset                                                 *)
(***************************************************************************)
\* C28: the application starts in the loading state, with no data and no
\* error; once the promise of the one fetch is settled it leaves the loading
\* state and never enters it again; after a successful load the player data
\* is the dataset and there is no error, after a failed one (request failed,
\* response not ok, body not JSON) there is an error message and the player
\* data is still empty; the cards are rendered, and the comparisons change,
\* only after a successful load; and fetch is called once, after the mount.
C28_LoadLifecycle ==
    /\ loading = TRUE
    /\ playerData = << >>
    /\ error = Null
    /\ [](pc \in { "mounted", "fetching", "settled" }
            => (loading /\ playerData = << >> /\ error = Null))
    /\ [](pc = "loaded" => (~loading /\ playerData = PlayersJson /\ error = Null))
    /\ [](pc = "failed"
            => (~loading /\ playerData = << >> /\ error.kind = "string" /\ error.val # ""))
    /\ [](CardsRendered => pc = "loaded")
    /\ [][~loading => ~loading']_vars
    /\ [][comparisons' # comparisons => pc = "loaded"]_vars
    /\ [][ /\ (pc # "fetching" /\ pc' = "fetching") => pc = "mounted"
          /\ pc # "mounted" => pc' # "mounted" ]_vars
    /\ (pc = "settled") ~> (~loading)

\* The dataset is loaded and a player of it is selected in a card, later
\* than the mount.
C28_Witness ==
    /\ pc = "loaded"
    /\ ~loading
    /\ playerData = PlayersJson
    /\ error = Null
    /\ clock > FirstClockReading
    /\ \E i \in DOMAIN comparisons : comparisons[i].selectedPlayer = PlayersJson[2]

====
